---- MODULE Spec2Model ----
(***************************************************************************)
(* Model of anipy_cli.clis.list_download_cli.ListDownloadCli: the          *)
(* resumable list-download state machine (print_header, take_input,        *)
(* process) together with the state file, the list file, the download      *)
(* folder and the provider registry it reads and writes.                   *)
(*                                                                         *)
(* JSON objects are TLA+ records; a key that is missing from an object is  *)
(* a field that is missing from the record's DOMAIN, so that a KeyError    *)
(* of the code is a failed DOMAIN test of the model.                       *)
(* Episode numbers are kept in tenths (10 is episode 1, 15 is episode      *)
(* 1.5): a value divisible by 10 is a Python int, any other a float.       *)
(* File stems are sequences of one-character strings.                      *)
(***************************************************************************)
EXTENDS Integers, Sequences, FiniteSets, TLC

VARIABLES
    list_file,    \* self.list_file on disk: [exists, lines]
    state_file,   \* self.state_file on disk: [kind, doc]
    disk,         \* self.dl_path: folder name -> set of directory entries
    registry,     \* list_providers(): the set of provider NAME keys
    anime_names,  \* self.anime_names
    state,        \* self.state
    picked,       \* self.picked
    all_errors,   \* process(): all_errors
    pc,           \* position of the run
    idx,          \* take_input: index of the first loop (line 125)
    bi,           \* take_input: entry index of the second loop (line 212)
    bj,           \* take_input: selection index of the second loop (line 216)
    pk,           \* process: index into self.picked (line 267)
    run,          \* number of the current run
    env,          \* number of changes made between runs by the environment
    log,          \* history of the current run (observations only)
    prev          \* how the previous run ended (observations only)

vars == <<list_file, state_file, disk, registry, anime_names, state, picked,
          all_errors, pc, idx, bi, bj, pk, run, env, log, prev>>

----------------------------------------------------------------------------
(* Bounds of the model.                                                     *)

MaxRuns == 2
MaxEnv == 1
MaxEp == 12

----------------------------------------------------------------------------
(* Text: str(), str.zfill(), the `in` operator on strings.                  *)

Digits == <<"0", "1", "2", "3", "4", "5", "6", "7", "8", "9">>

RECURSIVE StrNat(_)
StrNat(n) == IF n < 10 THEN <<Digits[n + 1]>>
             ELSE StrNat(n \div 10) \o <<Digits[(n % 10) + 1]>>

\* str(ep) of an episode number kept in tenths: an int prints its digits,
\* a float prints digits, a point and the fraction digit.
EpStr(t) == IF t % 10 = 0 THEN StrNat(t \div 10)
            ELSE StrNat(t \div 10) \o <<".">> \o StrNat(t % 10)

ZfillNone(s, width) == s

\* str.zfill(width)
RECURSIVE Zfill(_, _)
Zfill(s, width) == IF Len(s) >= width THEN s ELSE Zfill(<<"0">> \o s, width)

Contains(sub, s) ==
    \E k \in 1..(Len(s) - Len(sub) + 1) : SubSeq(s, k, k + Len(sub) - 1) = sub

----------------------------------------------------------------------------
(* The document.                                                            *)

EmptyDoc == [entries |-> <<>>]

Has(obj, key) == key \in DOMAIN obj

GetDownloadedNever(anime_data) == FALSE

\* anime_data.get("downloaded", False)
GetDownloaded(anime_data) ==
    IF Has(anime_data, "downloaded") THEN anime_data.downloaded ELSE FALSE

\* all(a.get("downloaded", False) for a in entry["anime"])
AllDownloaded(entry) ==
    \A j \in 1..Len(entry.anime) : GetDownloaded(entry.anime[j])

IsCompletedNever(entry) == FALSE

\* entry["status"] == "completed" (lines 129, 213)
IsCompleted(entry) == entry.status = "completed"

CheckEntryCompletedAny(entry) ==
    IF \E j \in 1..Len(entry.anime) : GetDownloaded(entry.anime[j])
    THEN [entry EXCEPT !.status = "completed"] ELSE entry

\* _check_entry_completed(entry): the entry afterwards
CheckEntryCompleted(entry) ==
    IF AllDownloaded(entry) THEN [entry EXCEPT !.status = "completed"] ELSE entry

RECURSIVE FindFromCompleted(_, _, _)
FindFromCompleted(entries, query, i) ==
    IF i > Len(entries) THEN 0
    ELSE IF ~Has(entries[i], "query") THEN -1
    ELSE IF /\ entries[i].query = query
            /\ Has(entries[i], "status")
            /\ entries[i].status = "completed" THEN i
    ELSE FindFromCompleted(entries, query, i + 1)

\* _find_state_entry(query): the index of the first entry with that query,
\* 0 for None, -1 when the scan reads entry["query"] of an entry without it.
RECURSIVE FindFrom(_, _, _)
FindFrom(entries, query, i) ==
    IF i > Len(entries) THEN 0
    ELSE IF ~Has(entries[i], "query") THEN -1
    ELSE IF entries[i].query = query THEN i
    ELSE FindFrom(entries, query, i + 1)

FindStateEntryNever(doc, query) == 0

FindStateEntry(doc, query) == FindFrom(doc.entries, query, 1)

----------------------------------------------------------------------------
(* The download folder and the existence check.                             *)

\* Path.stem: the name without its last suffix; a leading or a trailing
\* point starts no suffix.
RECURSIVE LastDot(_, _)
LastDot(name, k) == IF k = 0 THEN 0
                    ELSE IF name[k] = "." THEN k ELSE LastDot(name, k - 1)

Stem(name) == LET d == LastDot(name, Len(name))
              IN  IF d > 1 /\ d < Len(name) THEN SubSeq(name, 1, d - 1) ELSE name

\* Downloader._get_valid_pathname(name): the folder name of a show; the
\* characters a file system refuses are removed from the name.
ValidPathname(name) == IF name = "Sh/ow" THEN "Show" ELSE name

\* str(ep).zfill(2)
EpToken(ep) == Zfill(EpStr(ep), 2)

\* {p.stem for p in anime_folder.iterdir() if p.is_file()}
ExistingFiles(d, folder) == {Stem(p.name) : p \in {q \in d[folder] : q.is_file}}

\* _check_already_on_disk(anime_data)
CheckAlreadyOnDisk(d, anime_data) ==
    LET anime_folder == ValidPathname(anime_data.name)
    IN  IF anime_folder \notin DOMAIN d THEN FALSE
        ELSE \A n \in 1..Len(anime_data.episodes) :
                \E f \in ExistingFiles(d, anime_folder) :
                    Contains(EpToken(anime_data.episodes[n]), f)

----------------------------------------------------------------------------
(* The provider registry and the item resolver.                             *)

Providers == {"allanime", "gogoanime"}

\* LanguageTypeEnum[l.upper()]
LanguageTypeEnum(l) == CASE l = "sub" -> "SUB" [] l = "dub" -> "DUB"

\* LanguageTypeEnum.value
LangValue(e) == CASE e = "SUB" -> "sub" [] e = "DUB" -> "dub"

ProviderKnownAlways(reg, provider_name) == TRUE

\* _resolve_anime found the provider: p_cls.NAME == provider_name for some
\* p_cls of list_providers()
ProviderKnown(reg, provider_name) == provider_name \in reg

\* _resolve_anime(provider_name, identifier, name, languages): the Anime
ResolveAnime(provider_name, identifier, name, languages) ==
    [provider |-> provider_name, name |-> name, identifier |-> identifier,
     languages |-> {LanguageTypeEnum(l) : l \in languages}]

\* _find_anime_data(anime_name, provider): the place <<i, j>> of the first
\* selection with that name and provider in document order, <<0, 0>> for None
FindAnimeData(doc, anime_name, provider) ==
    LET places == UNION {{<<i, j>> : j \in 1..Len(doc.entries[i].anime)} :
                            i \in 1..Len(doc.entries)}
        hits == {ij \in places :
                    /\ doc.entries[ij[1]].anime[ij[2]].name = anime_name
                    /\ doc.entries[ij[1]].anime[ij[2]].provider = provider}
    IN  IF hits = {} THEN <<0, 0>>
        ELSE CHOOSE ij \in hits :
                \A o \in hits : ij[1] < o[1] \/ (ij[1] = o[1] /\ ij[2] <= o[2])

----------------------------------------------------------------------------
(* The collaborators' answers: what the prompts and the download engine     *)
(* can return, and what the files can hold.                                 *)

ShowA == [name |-> "Show", provider |-> "allanime", identifier |-> "id-show",
          languages |-> {"SUB"}]
ShowB == [name |-> "Other", provider |-> "gogoanime", identifier |-> "id-other",
          languages |-> {"DUB"}]

\* search_show_multi_prompt("download", query)
SearchResults == {<<>>, <<ShowA>>, <<ShowA, ShowB>>, <<ShowB, ShowA>>}

\* pick_episode_range_prompt(anime, lang)
EpisodeChoices == {<<>>, <<10, 20>>}

File(name) == [name |-> name, is_file |-> TRUE]
Dir(name) == [name |-> name, is_file |-> FALSE]

Ep01 == <<"0", "1", "_", "e", ".", "m">>
Ep02 == <<"0", "2", "_", "e", ".", "m">>

NoFolders == [f \in {} |-> {}]
DiskOptions == {[f \in {"Show"} |-> {File(Ep01), Dir(Ep02)}],
                [f \in {"Show"} |-> {File(Ep01), File(Ep02)}]}

\* line.strip()
Strip(line) == CASE line = " q1 " -> "q1" [] line = " " -> "" [] OTHER -> line

ListOptions == {[exists |-> FALSE, lines |-> <<>>],
                [exists |-> TRUE, lines |-> <<" ">>],
                [exists |-> TRUE, lines |-> <<"q1">>],
                [exists |-> TRUE, lines |-> <<"q1", "q2">>],
                [exists |-> TRUE, lines |-> <<"q1", "", " q1 ">>]}

NonBlankKeepsAll(lines) == [n \in 1..Len(lines) |-> Strip(lines[n])]

\* [line.strip() for line in lines if line.strip()]
RECURSIVE NonBlank(_)
NonBlank(lines) ==
    IF lines = <<>> THEN <<>>
    ELSE (IF Strip(Head(lines)) = "" THEN <<>> ELSE <<Strip(Head(lines))>>)
         \o NonBlank(Tail(lines))

----------------------------------------------------------------------------
(* The state file.                                                          *)

NoFile == [kind |-> "absent", doc |-> EmptyDoc]

\* _save_state(): json.dumps of the document; json.loads gives the same
\* objects, lists, strings, numbers and booleans back.
SaveState(doc) == [kind |-> "json", doc |-> doc]

\* Does json.loads and the counting of completed entries in print_header
\* succeed on the file? (lines 57-63)
Loads(f) == /\ f.kind = "json"
            /\ Has(f.doc, "entries")
            /\ \A i \in 1..Len(f.doc.entries) : Has(f.doc.entries[i], "status")

LoadStateForgets(f) == EmptyDoc

\* self.state after print_header's load (lines 55-71)
LoadState(f) == IF Loads(f) THEN f.doc ELSE EmptyDoc

----------------------------------------------------------------------------
(* Entries made from the prompts' answers (lines 167-200).                  *)

\* int(e) or float(e) of line 192: the same number, an int when integral
EpNumber(e) == e

Selection(anime, lang, episodes) ==
    [provider |-> anime.provider,
     identifier |-> anime.identifier,
     name |-> anime.name,
     languages |-> {LangValue(l) : l \in anime.languages},
     lang |-> LangValue(lang),
     episodes |-> [n \in 1..Len(episodes) |-> EpNumber(episodes[n])],
     downloaded |-> FALSE]

RECURSIVE SelectionsKeepEmpty(_, _, _, _)
SelectionsKeepEmpty(shows, langs, eps, n) ==
    IF n > Len(shows) THEN <<>>
    ELSE <<Selection(shows[n], langs[n], eps[n])>>
         \o SelectionsKeepEmpty(shows, langs, eps, n + 1)

\* the loop of lines 173-197 from the n-th selected show on
RECURSIVE Selections(_, _, _, _)
Selections(shows, langs, eps, n) ==
    IF n > Len(shows) THEN <<>>
    ELSE (IF eps[n] = <<>> THEN <<>>
          ELSE <<Selection(shows[n], langs[n], eps[n])>>)
         \o Selections(shows, langs, eps, n + 1)

FreshEntry(query, shows, langs, eps) ==
    [query |-> query, anime |-> Selections(shows, langs, eps, 1),
     status |-> "pending"]

----------------------------------------------------------------------------
(* Observations: what a run did, kept beside the program's state.           *)

NoPrompt == [query |-> "", shows |-> <<>>, langs |-> <<>>, eps |-> <<>>,
             before |-> <<>>]

NewLog(f, e, created, justified) ==
    [start_file |-> f,          \* the state file when the run started
     env |-> e,                 \* the environment's changes before the run
     reads |-> 0,               \* reads of the state file
     loaded |-> EmptyDoc,       \* self.state when print_header returned
     resolved |-> <<>>,         \* queries the prompts were invoked for
     empty |-> {},              \* queries the prompts gave no selection for
     prompt |-> NoPrompt,       \* the last answers of the prompts
     src |-> <<>>,              \* place <<i, j>> of each item of self.picked
     ondisk |-> {},             \* places the existence check found complete
     calls |-> <<>>,            \* download-engine invocations:
                                \* [src, items, errors]
     saves |-> 0,               \* calls of _save_state
     served |-> <<>>,           \* serve_download_errors calls: the lists
     created |-> created,       \* places of selections the program created
     justified |-> justified]   \* places found on disk or downloaded

Terminal == {"done", "fatal", "crashed"}

----------------------------------------------------------------------------
(* The initial state: nothing has run; no state file yet.                   *)

Init ==
    /\ list_file \in ListOptions
    /\ state_file = NoFile
    /\ disk \in DiskOptions
    /\ registry = Providers
    /\ anime_names = <<>>
    /\ state = EmptyDoc
    /\ picked = <<>>
    /\ all_errors = <<>>
    /\ pc = "start"
    /\ idx = 1 /\ bi = 1 /\ bj = 1 /\ pk = 1
    /\ run = 0
    /\ env = 0
    /\ log = NewLog(NoFile, 0, {}, {})
    /\ prev = [ended |-> "none", env |-> 0, calls |-> 0, empty |-> {}]

----------------------------------------------------------------------------
(* __init__ (lines 27-38): a new run of the command.                        *)

Construct ==
    /\ pc \in {"start", "exited"}
    /\ run < MaxRuns
    /\ run' = run + 1
    /\ anime_names' = <<>>
    /\ state' = EmptyDoc
    /\ picked' = <<>>
    /\ all_errors' = <<>>
    /\ pc' = "header"
    /\ idx' = 1 /\ bi' = 1 /\ bj' = 1 /\ pk' = 1
    /\ log' = NewLog(state_file, env, log.created, log.justified)
    /\ UNCHANGED <<list_file, state_file, disk, registry, env, prev>>

(* The process exits: after post(), error(fatal=True) or an uncaught        *)
(* exception. Its memory is gone; the files stay.                           *)

Exit ==
    /\ pc \in Terminal
    /\ pc' = "exited"
    /\ anime_names' = <<>>
    /\ state' = EmptyDoc
    /\ picked' = <<>>
    /\ all_errors' = <<>>
    /\ idx' = 1 /\ bi' = 1 /\ bj' = 1 /\ pk' = 1
    /\ prev' = [ended |-> pc, env |-> log.env, calls |-> Len(log.calls),
                empty |-> log.empty]
    /\ log' = NewLog(state_file, env, log.created, log.justified)
    /\ UNCHANGED <<list_file, state_file, disk, registry, run, env>>

(* print_header (lines 40-84).                                              *)

PrintHeader ==
    /\ pc = "header"
    /\ IF ~list_file.exists
       THEN \* line 44
            /\ pc' = "fatal"
            /\ UNCHANGED <<anime_names, state, log>>
       ELSE /\ anime_names' = NonBlank(list_file.lines)
            /\ IF anime_names' = <<>>
               THEN \* line 53
                    /\ pc' = "fatal"
                    /\ UNCHANGED <<state, log>>
               ELSE IF state_file.kind = "array"
               THEN \* line 60: self.state is a list, TypeError
                    /\ pc' = "crashed"
                    /\ log' = [log EXCEPT !.reads = @ + 1]
                    /\ UNCHANGED state
               ELSE /\ state' = LoadState(state_file)
                    /\ log' = [log EXCEPT
                                 !.reads = IF state_file.kind = "absent"
                                           THEN @ ELSE @ + 1,
                                 !.loaded = state',
                                 !.created = IF Loads(state_file) THEN @ ELSE {},
                                 !.justified = IF Loads(state_file) THEN @ ELSE {}]
                    /\ pc' = "input"
    /\ UNCHANGED <<list_file, state_file, disk, registry, picked, all_errors,
                   idx, bi, bj, pk, run, env, prev>>

(* take_input, first loop (lines 125-200): one line of the list.            *)

TakeInputLine ==
    /\ pc = "input"
    /\ idx <= Len(anime_names)
    /\ LET query == anime_names[idx]
           existing == FindStateEntry(state, query)
       IN  IF existing = -1 \/ (existing > 0 /\ ~Has(state.entries[existing], "status"))
           THEN \* KeyError at line 88 or 129
                /\ pc' = "crashed"
                /\ UNCHANGED <<state, idx, log>>
           ELSE IF existing > 0
           THEN \* lines 128-149: completed or pending, no prompt
                /\ idx' = idx + 1
                /\ UNCHANGED <<state, pc, log>>
           ELSE \E shows \in SearchResults :
                \E langs \in [1..Len(shows) -> {"SUB", "DUB"}] :
                \E eps \in [1..Len(shows) -> EpisodeChoices] :
                    /\ \A n \in 1..Len(shows) : langs[n] \in shows[n].languages
                    /\ LET entry == FreshEntry(query, shows, langs, eps)
                           at == Len(state.entries) + 1
                           add == shows # <<>> /\ entry.anime # <<>>
                       IN  /\ state' = IF add
                                       THEN [state EXCEPT !.entries = Append(@, entry)]
                                       ELSE state
                           /\ log' = [log EXCEPT
                                 !.resolved = Append(@, query),
                                 !.empty = IF add THEN @ ELSE @ \cup {query},
                                 !.prompt = [query |-> query, shows |-> shows,
                                             langs |-> langs, eps |-> eps,
                                             before |-> state.entries],
                                 !.created = IF add
                                             THEN @ \cup {<<at, j>> : j \in 1..Len(entry.anime)}
                                             ELSE @]
                    /\ idx' = idx + 1
                    /\ UNCHANGED pc
    /\ UNCHANGED <<list_file, state_file, disk, registry, anime_names, picked,
                   all_errors, bi, bj, pk, run, env, prev>>

(* take_input, line 203: save after all interactive input.                  *)

SaveAfterInput ==
    /\ pc = "input"
    /\ idx > Len(anime_names)
    /\ state_file' = SaveState(state)
    /\ log' = [log EXCEPT !.saves = @ + 1, !.prompt = NoPrompt]
    /\ pc' = "build"
    /\ UNCHANGED <<list_file, disk, registry, anime_names, state, picked,
                   all_errors, idx, bi, bj, pk, run, env, prev>>

(* take_input, second loop (lines 212-239): one step of the walk over the   *)
(* entries and their selections.                                            *)

MarkDownloadedClearsEpisodes(anime_data) ==
    [k \in DOMAIN anime_data \cup {"downloaded"} |->
        IF k = "downloaded" THEN TRUE
        ELSE IF k = "episodes" THEN <<>> ELSE anime_data[k]]

\* anime_data["downloaded"] = True
MarkDownloaded(anime_data) ==
    [k \in DOMAIN anime_data \cup {"downloaded"} |->
        IF k = "downloaded" THEN TRUE ELSE anime_data[k]]

\* the tuple appended to self.picked (lines 228-239)
PickedItem(anime_data) ==
    [anime |-> ResolveAnime(anime_data.provider, anime_data.identifier,
                            anime_data.name, anime_data.languages),
     lang |-> LanguageTypeEnum(anime_data.lang),
     episodes |-> [n \in 1..Len(anime_data.episodes) |->
                      EpNumber(anime_data.episodes[n])]]

BuildStep ==
    /\ pc = "build"
    /\ bi <= Len(state.entries)
    /\ LET entry == state.entries[bi]
       IN  IF ~Has(entry, "status")
           THEN \* KeyError at line 213
                /\ pc' = "crashed"
                /\ UNCHANGED <<state, picked, bi, bj, log>>
           ELSE IF IsCompleted(entry)
           THEN \* line 214
                /\ bi' = bi + 1 /\ bj' = 1
                /\ UNCHANGED <<state, picked, pc, log>>
           ELSE IF ~Has(entry, "anime")
           THEN \* KeyError at line 216
                /\ pc' = "crashed"
                /\ UNCHANGED <<state, picked, bi, bj, log>>
           ELSE IF bj > Len(entry.anime)
           THEN \* the inner loop is over
                /\ bi' = bi + 1 /\ bj' = 1
                /\ UNCHANGED <<state, picked, pc, log>>
           ELSE LET anime_data == entry.anime[bj]
                IN  IF GetDownloaded(anime_data)
                    THEN \* line 218
                         /\ bj' = bj + 1
                         /\ UNCHANGED <<state, picked, pc, bi, log>>
                    ELSE IF CheckAlreadyOnDisk(disk, anime_data)
                    THEN \* lines 220-226
                         /\ state' = [state EXCEPT !.entries[bi].anime[bj] =
                                         MarkDownloaded(@)]
                         /\ log' = [log EXCEPT
                                      !.ondisk = @ \cup {<<bi, bj>>},
                                      !.justified = @ \cup {<<bi, bj>>}]
                         /\ bj' = bj + 1
                         /\ UNCHANGED <<picked, pc, bi>>
                    ELSE IF ProviderKnown(registry, anime_data.provider)
                    THEN \* lines 228-239
                         /\ picked' = Append(picked, PickedItem(anime_data))
                         /\ log' = [log EXCEPT !.src = Append(@, <<bi, bj>>)]
                         /\ bj' = bj + 1
                         /\ UNCHANGED <<state, pc, bi>>
                    ELSE \* line 120
                         /\ pc' = "fatal"
                         /\ UNCHANGED <<state, picked, bi, bj, log>>
    /\ UNCHANGED <<list_file, state_file, disk, registry, anime_names,
                   all_errors, idx, pk, run, env, prev>>

(* take_input, lines 241-248: update the statuses, save, return.            *)

UpdateStatuses ==
    /\ pc = "build"
    /\ bi > Len(state.entries)
    /\ IF \E i \in 1..Len(state.entries) : ~Has(state.entries[i], "anime")
       THEN \* KeyError at line 258
            /\ pc' = "crashed"
            /\ UNCHANGED <<state, state_file, log>>
       ELSE /\ state' = [state EXCEPT !.entries =
                            [i \in 1..Len(@) |-> CheckEntryCompleted(@[i])]]
            /\ state_file' = SaveState(state')
            /\ log' = [log EXCEPT !.saves = @ + 1]
            /\ pc' = IF picked = <<>> THEN "done" ELSE "process"
    /\ UNCHANGED <<list_file, disk, registry, anime_names, picked, all_errors,
                   idx, bi, bj, pk, run, env, prev>>

(* process (lines 261-289).                                                 *)

\* What download_anime([(anime, lang, episodes)], ...) can return for the
\* item at place k of self.picked: no error, or every episode as an
\* (anime, episode) pair.
Failure(item, k, n) == [anime |-> item.anime, episode |-> item.episodes[n], item |-> k]

DownloadOutcomes(item, k) ==
    {<<>>, [n \in 1..Len(item.episodes) |-> Failure(item, k, n)]}

\* lines 276-285: the document after a download without errors
AfterSuccess(doc, anime) ==
    LET ij == FindAnimeData(doc, anime.name, anime.provider)
    IN  IF ij = <<0, 0>> THEN doc
        ELSE LET marked == [doc EXCEPT !.entries[ij[1]].anime[ij[2]] =
                                MarkDownloaded(@)]
             IN  [marked EXCEPT !.entries[ij[1]] = CheckEntryCompleted(@)]

\* the for loop of line 267 goes on with the next item, whatever the
\* errors were
NextItemStops(k, errors) == IF errors = <<>> THEN k + 1 ELSE Len(picked) + 1

NextItem(k, errors) == k + 1

ProcessItem ==
    /\ pc = "process"
    /\ pk <= Len(picked)
    /\ \E errors \in DownloadOutcomes(picked[pk], pk) :
          /\ log' = [log EXCEPT
                !.calls = Append(@, [src |-> log.src[pk],
                                     items |-> <<picked[pk]>>,
                                     errors |-> errors]),
                !.saves = IF errors = <<>> THEN @ + 1 ELSE @,
                !.justified = IF errors = <<>> THEN @ \cup {log.src[pk]} ELSE @]
          /\ IF errors = <<>>
             THEN /\ state' = AfterSuccess(state, picked[pk].anime)
                  /\ state_file' = SaveState(state')
                  /\ UNCHANGED all_errors
             ELSE /\ all_errors' = all_errors \o errors
                  /\ UNCHANGED <<state, state_file>>
          /\ pk' = NextItem(pk, errors)
    /\ UNCHANGED <<list_file, disk, registry, anime_names, picked, pc, idx,
                   bi, bj, run, env, prev>>

\* line 289
ServeDownloadErrors ==
    /\ pc = "process"
    /\ pk > Len(picked)
    /\ log' = [log EXCEPT !.served = Append(@, all_errors)]
    /\ pc' = "done"
    /\ UNCHANGED <<list_file, state_file, disk, registry, anime_names, state,
                   picked, all_errors, idx, bi, bj, pk, run, env, prev>>

----------------------------------------------------------------------------
(* The environment between two runs: the user edits the state file or the   *)
(* list file, a provider leaves the registry, the download folder changes.  *)

Drop(obj, key) == [k \in DOMAIN obj \ {key} |-> obj[k]]

Edits(f) ==
    {[kind |-> "garbage", doc |-> EmptyDoc],
     [kind |-> "array", doc |-> EmptyDoc]}
    \cup (IF f.kind = "json" /\ Has(f.doc, "entries")
          THEN {[kind |-> "json", doc |-> Drop(f.doc, "entries")]}
               \cup {[f EXCEPT !.doc.entries[i] = Drop(@, key)] :
                        i \in 1..Len(f.doc.entries),
                        key \in {"query", "status", "anime"}}
               \cup {[f EXCEPT !.doc.entries[i].status = "completed"] :
                        i \in 1..Len(f.doc.entries)}
          ELSE {})

EditStateFile ==
    /\ pc = "exited"
    /\ env < MaxEnv
    /\ state_file.kind # "absent"
    /\ \E f \in Edits(state_file) \ {state_file} : state_file' = f
    /\ env' = env + 1
    /\ UNCHANGED <<list_file, disk, registry, anime_names, state, picked,
                   all_errors, pc, idx, bi, bj, pk, run, log, prev>>

ProviderRemoved ==
    /\ pc = "exited"
    /\ env < MaxEnv
    /\ \E p \in registry : registry' = registry \ {p}
    /\ env' = env + 1
    /\ UNCHANGED <<list_file, state_file, disk, anime_names, state, picked,
                   all_errors, pc, idx, bi, bj, pk, run, log, prev>>

\* The user deletes the list file, blanks it, or appends a line to it.
ListEdits(l) ==
    {o \in ListOptions :
        \/ ~o.exists
        \/ \A n \in 1..Len(o.lines) : Strip(o.lines[n]) = ""
        \/ /\ Len(o.lines) = Len(l.lines) + 1
           /\ SubSeq(o.lines, 1, Len(l.lines)) = l.lines}

ListChanged ==
    /\ pc = "exited"
    /\ env < MaxEnv
    /\ \E l \in ListEdits(list_file) \ {list_file} : list_file' = l
    /\ env' = env + 1
    /\ UNCHANGED <<state_file, disk, registry, anime_names, state, picked,
                   all_errors, pc, idx, bi, bj, pk, run, log, prev>>

DiskChanged ==
    /\ pc = "exited"
    /\ env < MaxEnv
    /\ \E d \in DiskOptions \ {disk} : disk' = d
    /\ env' = env + 1
    /\ UNCHANGED <<list_file, state_file, registry, anime_names, state, picked,
                   all_errors, pc, idx, bi, bj, pk, run, log, prev>>

----------------------------------------------------------------------------

Next == \/ Construct
        \/ Exit
        \/ PrintHeader
        \/ TakeInputLine
        \/ SaveAfterInput
        \/ BuildStep
        \/ UpdateStatuses
        \/ ProcessItem
        \/ ServeDownloadErrors
        \/ EditStateFile
        \/ ListChanged
        \/ ProviderRemoved
        \/ DiskChanged

Spec == Init /\ [][Next]_vars

----------------------------------------------------------------------------
(* Vocabulary of the properties.                                            *)

Rng(seq) == {seq[n] : n \in 1..Len(seq)}

RECURSIVE Flatten(_)
Flatten(seqs) == IF seqs = <<>> THEN <<>> ELSE Head(seqs) \o Flatten(Tail(seqs))

\* No change by the environment since the run started.
Undisturbed == env = log.env

\* The run got past print_header's load.
Loaded == pc \in {"input", "build", "process", "done"}
          \/ (pc \in {"fatal", "crashed"} /\ anime_names # <<>>
              /\ log.start_file.kind # "array")

\* status == completed iff every selection is downloaded, for every entry
StatusMatchesFlags(doc) ==
    \A i \in 1..Len(doc.entries) :
        /\ Has(doc.entries[i], "status")
        /\ Has(doc.entries[i], "anime")
        /\ (doc.entries[i].status = "completed") <=> AllDownloaded(doc.entries[i])

\* The selection at a place of the document.
At(doc, ij) == doc.entries[ij[1]].anime[ij[2]]

InDoc(doc, ij) == /\ ij[1] \in 1..Len(doc.entries)
                  /\ Has(doc.entries[ij[1]], "anime")
                  /\ ij[2] \in 1..Len(doc.entries[ij[1]].anime)

----------------------------------------------------------------------------
\* C1: partial-failure isolation. When process() has returned, every
\* selection whose own download returned no errors is downloaded and its
\* entry's status recomputed, every selection whose download returned
\* errors is still not downloaded in a still pending entry, and the errors
\* reported are exactly the errors the failing downloads returned, in order.
C1_PartialFailureIsolation ==
    (pc = "done" /\ log.served # <<>>) =>
        /\ \A k \in 1..Len(log.calls) :
              LET c == log.calls[k]
                  entry == state.entries[c.src[1]]
              IN  IF c.errors = <<>>
                  THEN /\ GetDownloaded(At(state, c.src))
                       /\ (entry.status = "completed") <=> AllDownloaded(entry)
                  ELSE /\ ~GetDownloaded(At(state, c.src))
                       /\ entry.status = "pending"
        /\ log.served = <<Flatten([k \in 1..Len(log.calls) |-> log.calls[k].errors])>>

\* C2: a selection the program created is downloaded only if the existence
\* check returned true for that selection or a download made for that
\* selection returned no errors.
C2_DownloadedOnlyIfJustified ==
    \A ij \in log.created :
        (InDoc(state, ij) /\ GetDownloaded(At(state, ij))) => ij \in log.justified

----------------------------------------------------------------------------
\* C3: status/flag invariant. From the second save of take_input on, the
\* document in the state file has status == completed exactly for the
\* entries whose selections are all downloaded, provided the document
\* loaded at the start of the run had.
C3_StatusIffAllDownloaded ==
    (log.saves >= 2 /\ Undisturbed /\ StatusMatchesFlags(log.loaded)) =>
        /\ state_file = SaveState(state)
        /\ StatusMatchesFlags(state_file.doc)

\* C3 happens: after a download the file holds a completed entry beside a
\* pending one.
C3_Witness ==
    /\ log.saves >= 3
    /\ Undisturbed
    /\ StatusMatchesFlags(log.loaded)
    /\ \E i, k \in 1..Len(state_file.doc.entries) :
          /\ state_file.doc.entries[i].status = "completed"
          /\ state_file.doc.entries[k].status = "pending"

----------------------------------------------------------------------------
\* The flags of a document: completed entries and downloaded selections.
Entries(f) == IF f.kind = "json" /\ Has(f.doc, "entries") THEN f.doc.entries ELSE <<>>

CompletedAt(es, i) == i <= Len(es) /\ Has(es[i], "status") /\ es[i].status = "completed"

DownloadedAt(es, i, j) ==
    /\ i <= Len(es) /\ Has(es[i], "anime") /\ j <= Len(es[i].anime)
    /\ GetDownloaded(es[i].anime[j])

\* Every flag set in es is set in the same place of et.
FlagsKept(es, et) ==
    \A i \in 1..Len(es) :
        /\ CompletedAt(es, i) => CompletedAt(et, i)
        /\ Has(es[i], "anime") =>
              \A j \in 1..Len(es[i].anime) :
                  DownloadedAt(es, i, j) => DownloadedAt(et, i, j)

\* A flag of es is reset in et: the same query's entry, or the same show's
\* selection, is back to pending or to not downloaded.
Reverted(es, et) ==
    \E i \in 1..Len(es) :
        /\ i <= Len(et)
        /\ Has(es[i], "query") /\ Has(et[i], "query") /\ es[i].query = et[i].query
        /\ \/ CompletedAt(es, i) /\ Has(et[i], "status") /\ et[i].status = "pending"
           \/ \E j \in (IF Has(es[i], "anime") THEN 1..Len(es[i].anime) ELSE {}) :
                 /\ DownloadedAt(es, i, j)
                 /\ Has(et[i], "anime") /\ j <= Len(et[i].anime)
                 /\ et[i].anime[j].name = es[i].anime[j].name
                 /\ ~GetDownloaded(et[i].anime[j])

\* A step of the program, not of the environment.
ProgramStep == env' = env

\* C4 as claimed: no step of any run resets a downloaded flag or a completed
\* status of the state document.
C4_NeverReverts ==
    [][ProgramStep => ~Reverted(Entries(state_file), Entries(state_file'))]_vars

\* C4 as amended: while the state file is one that print_header loads, every
\* step of a run keeps every downloaded flag and every completed status of
\* the state file, and every step of take_input and process keeps those of
\* the document in memory.
C4_FlagsKeptWhenLoadable ==
    [][ProgramStep =>
         /\ Loads(state_file) => FlagsKept(Entries(state_file), Entries(state_file'))
         /\ pc \in {"input", "build", "process"} =>
                FlagsKept(state.entries, state'.entries)]_vars

\* C4 happens: a second run has loaded a completed entry and saved twice.
C4_Witness ==
    /\ run = 2
    /\ log.saves >= 2
    /\ Loads(log.start_file)
    /\ \E i \in 1..Len(log.start_file.doc.entries) :
          /\ CompletedAt(log.start_file.doc.entries, i)
          /\ DownloadedAt(log.start_file.doc.entries, i, 1)
          /\ CompletedAt(Entries(state_file), i)

----------------------------------------------------------------------------
\* C5: resume correctness. For an entry that is completed in the document
\* loaded at the start of the run, the run invokes neither the prompts for
\* its query nor the download engine for one of its selections.
C5_CompletedNeverRedone ==
    \A i \in 1..Len(log.loaded.entries) :
        log.loaded.entries[i].status = "completed" =>
            /\ Has(log.loaded.entries[i], "query") =>
                  log.loaded.entries[i].query \notin Rng(log.resolved)
            /\ \A k \in 1..Len(log.calls) : log.calls[k].src[1] # i
            /\ \A k \in 1..Len(log.src) : log.src[k][1] # i

\* C5 happens: a run that loaded a completed entry whose query is in the
\* list has downloaded for another entry and ended.
C5_Witness ==
    /\ pc = "done"
    /\ log.calls # <<>>
    /\ \E i \in 1..Len(log.loaded.entries) :
          /\ log.loaded.entries[i].status = "completed"
          /\ Has(log.loaded.entries[i], "query")
          /\ log.loaded.entries[i].query \in Rng(anime_names)

----------------------------------------------------------------------------
\* A second run in a row: the previous run ended, nothing was changed by
\* the environment since the previous run started, and every query of the
\* list has an entry in the state file the run started from.
SecondRunInARow ==
    /\ run >= 2
    /\ pc \in Terminal
    /\ prev.ended \in Terminal
    /\ Undisturbed /\ log.env = prev.env
    /\ anime_names # <<>>
    /\ \A q \in Rng(anime_names) : FindFrom(Entries(log.start_file), q, 1) > 0

AllCompleted(es) == \A i \in 1..Len(es) : CompletedAt(es, i)

\* C6 as claimed: the second run in a row downloads nothing and leaves the
\* state document as the first run left it.
C6_SecondRunIdle ==
    SecondRunInARow => (log.calls = <<>> /\ state_file = log.start_file)

\* C6 as amended: the same, when the first run left every entry completed.
C6_SecondRunIdleWhenCompleted ==
    (SecondRunInARow /\ AllCompleted(Entries(log.start_file))) =>
        /\ log.calls = <<>>
        /\ log.resolved = <<>>
        /\ state_file = log.start_file

\* C6 happens: the first run downloaded, the second found all completed.
C6_Witness ==
    /\ SecondRunInARow
    /\ AllCompleted(Entries(log.start_file))
    /\ prev.calls > 0
    /\ Len(Entries(log.start_file)) = 2

----------------------------------------------------------------------------
\* The state file exists and is one of the corrupt files of C7: it does not
\* parse, or it lacks the entries key, or an entry lacks query, status or
\* anime.
Corrupt(f) ==
    \/ f.kind = "garbage"
    \/ /\ f.kind = "json"
       /\ \/ ~Has(f.doc, "entries")
          \/ \E i \in 1..Len(f.doc.entries) :
                \E key \in {"query", "status", "anime"} : ~Has(f.doc.entries[i], key)

\* C7: a run that starts from a corrupt state file does not crash and goes
\* on with the empty document, as if there were no state file.
C7_CorruptionTolerated ==
    Corrupt(log.start_file) =>
        /\ pc # "crashed"
        /\ pc = "done" => log.loaded = EmptyDoc

----------------------------------------------------------------------------
\* The places of the shows with a non-empty episode selection, in order.
Kept(eps) == {n \in 1..Len(eps) : eps[n] # <<>>}

\* The m-th smallest place of a set of places.
Nth(places, m) == CHOOSE n \in places : Cardinality({o \in places : o < n}) = m - 1

\* C8: fresh-entry construction. When the prompts were invoked for a query
\* and returned shows, the document gets one new last entry, pending, with
\* one not downloaded selection per show with episodes, in the order of
\* selection; and no entry when no show has episodes.
C8_FreshEntry ==
    [][(log'.resolved # log.resolved /\ log'.prompt.shows # <<>>) =>
          LET p == log'.prompt
              keep == Kept(p.eps)
              es == state'.entries
          IN  IF keep = {}
              THEN es = p.before
              ELSE /\ Len(es) = Len(p.before) + 1
                   /\ SubSeq(es, 1, Len(p.before)) = p.before
                   /\ es[Len(es)].query = p.query
                   /\ es[Len(es)].status = "pending"
                   /\ Len(es[Len(es)].anime) = Cardinality(keep)
                   /\ \A m \in 1..Cardinality(keep) :
                         LET a == es[Len(es)].anime[m]
                             n == Nth(keep, m)
                         IN  /\ a.name = p.shows[n].name
                             /\ a.provider = p.shows[n].provider
                             /\ a.identifier = p.shows[n].identifier
                             /\ a.episodes = p.eps[n]
                             /\ a.downloaded = FALSE]_vars

\* C8 happens: of two shows selected the first has no episodes and the
\* entry holds the second alone, and the other way round.
C8_Witness ==
    /\ Len(log.prompt.shows) = 2
    /\ log.prompt.eps[1] = <<>>
    /\ log.prompt.eps[2] # <<>>
    /\ Len(state.entries) = Len(log.prompt.before) + 1
    /\ Len(state.entries[Len(state.entries)].anime) = 1

----------------------------------------------------------------------------
HasUnknownProvider(doc) ==
    \E i \in 1..Len(doc.entries) :
        /\ Has(doc.entries[i], "anime")
        /\ \E j \in 1..Len(doc.entries[i].anime) :
              doc.entries[i].anime[j].provider \notin registry

\* A selection take_input has to resolve has an unknown provider.
NeedsUnknownProvider(doc) ==
    \E i \in 1..Len(doc.entries) :
        /\ Has(doc.entries[i], "anime")
        /\ doc.entries[i].status # "completed"
        /\ \E j \in 1..Len(doc.entries[i].anime) :
              /\ ~GetDownloaded(doc.entries[i].anime[j])
              /\ ~CheckAlreadyOnDisk(disk, doc.entries[i].anime[j])
              /\ doc.entries[i].anime[j].provider \notin registry

\* C10 as claimed: a run whose loaded document holds a selection with a
\* provider that is not in the registry ends fatally and downloads nothing.
C10_UnknownProviderFatal ==
    (Loaded /\ Undisturbed /\ HasUnknownProvider(log.loaded)) =>
        /\ log.calls = <<>>
        /\ pc \notin {"process", "done"}

\* C10 as amended: a run whose loaded document holds a selection that is to
\* be resolved (its entry not completed, not downloaded, not complete on
\* disk) with a provider that is not in the registry never reaches
\* process(): it downloads nothing and does not end normally.
C10_UnresolvableProviderFatal ==
    (Loaded /\ Undisturbed /\ NeedsUnknownProvider(log.loaded)) =>
        /\ log.calls = <<>>
        /\ pc \notin {"process", "done"}
        /\ log.saves <= 1

\* C10 happens: the run ended fatally at such a selection after it had
\* queued another one.
C10_Witness ==
    /\ pc = "fatal"
    /\ Undisturbed
    /\ NeedsUnknownProvider(log.loaded)
    /\ picked # <<>>

----------------------------------------------------------------------------
\* The list file is missing or holds no line that is not blank.
ListUnusable ==
    \/ ~list_file.exists
    \/ \A n \in 1..Len(list_file.lines) : Strip(list_file.lines[n]) = ""

\* C11: input-list precondition. A run whose list file is missing or holds
\* no non-blank line ends fatally in print_header: the state file is not
\* read and not written, the prompts and the download engine are not
\* invoked, and an existing state file is left as it was.
C11_ListPrecondition ==
    (ListUnusable /\ pc \in {"input", "build", "process"} \cup Terminal) =>
        /\ pc = "fatal"
        /\ log.reads = 0
        /\ log.saves = 0
        /\ state_file = log.start_file
        /\ state = EmptyDoc
        /\ log.resolved = <<>>
        /\ log.src = <<>>
        /\ log.calls = <<>>

\* C11 happens: a run ended fatally on a list of blank lines beside a state
\* file that holds an entry.
C11_Witness ==
    /\ pc = "fatal"
    /\ list_file.exists
    /\ ListUnusable
    /\ state_file.kind = "json"
    /\ Has(state_file.doc, "entries")
    /\ state_file.doc.entries # <<>>

----------------------------------------------------------------------------
\* No two entries of es have the same query.
QueriesUnique(es) ==
    \A i, k \in 1..Len(es) :
        (i # k /\ Has(es[i], "query") /\ Has(es[k], "query")) =>
            es[i].query # es[k].query

\* The entry of es with the query q exists.
HasEntry(es, q) == \E i \in 1..Len(es) : Has(es[i], "query") /\ es[i].query = q

\* take_input has gone past the line at idx.
LineDone == pc = "input" /\ idx' = idx + 1

\* C12: query uniqueness. Over every sequence of runs that starts without a
\* state file, no step leaves two entries with the same query in the
\* document, in memory or in the state file, whatever lines the list
\* repeats; and a line whose query has an entry leaves the entries as they
\* are, so that the entry of a repeated line is the first one created.
C12_QueryUnique ==
    [][/\ QueriesUnique(state'.entries)
       /\ QueriesUnique(Entries(state_file'))
       /\ (LineDone /\ HasEntry(state.entries, anime_names[idx])) =>
              state'.entries = state.entries]_vars

\* C12 happens: a second run over a list that holds the same line twice has
\* ended with one entry for it; the prompts had been invoked for the line
\* twice, the first time without a selection.
C12_Witness ==
    /\ run = 2
    /\ pc = "done"
    /\ anime_names = <<"q1", "q1">>
    /\ log.resolved = <<"q1", "q1">>
    /\ Len(Entries(state_file)) = 1
    /\ state_file.doc.entries[1].query = "q1"

----------------------------------------------------------------------------
\* take_input's first loop is over.
InputDone == pc = "input" /\ pc' = "build"

\* The prompts were invoked in the step.
Prompted == log'.resolved # log.resolved

\* A run that follows a run with nothing changed in between.
RunsInARow == run >= 2 /\ Undisturbed /\ log.env = prev.env

\* What holds of each line of the list: the prompts are invoked exactly
\* when the document holds no entry with the line's query, an entry that
\* exists is left as it is, and answers without a selection leave the
\* document as it is.
GatedLine ==
    LineDone =>
        /\ Prompted <=> ~HasEntry(state.entries, anime_names[idx])
        /\ HasEntry(state.entries, anime_names[idx]) => state' = state
        /\ (Prompted /\ Kept(log'.prompt.eps) = {}) => state' = state

\* C13 as claimed: resolver gating, and the prompts are invoked in the next
\* run for every query they gave no selection for in this run.
C13_ResolverGating ==
    [][/\ GatedLine
       /\ (InputDone /\ RunsInARow) =>
              \A q \in prev.empty : q \in Rng(log.resolved)]_vars

\* C13 as amended: resolver gating, and the prompts are invoked in the next
\* run for every query they gave no selection for in this run, unless a
\* later line with the same query got an entry in this run.
C13_ResolverGatingUnlessEntry ==
    [][/\ GatedLine
       /\ (InputDone /\ RunsInARow) =>
              \A q \in prev.empty :
                  ~HasEntry(Entries(log.start_file), q) => q \in Rng(log.resolved)]_vars

\* C13 happens: the second run in a row has reused the pending entry of q1
\* without a prompt and has invoked the prompts for q2 again, which had no
\* selection in the first run.
C13_Witness ==
    /\ RunsInARow
    /\ pc = "build"
    /\ prev.empty = {"q2"}
    /\ log.resolved = <<"q2">>
    /\ Len(log.loaded.entries) = 1
    /\ log.loaded.entries[1].query = "q1"
    /\ log.loaded.entries[1].status = "pending"
    /\ state.entries[1] = log.loaded.entries[1]

----------------------------------------------------------------------------
\* The places of the selections of es from <<i, j>> on, in document order;
\* an entry without selections has none.
RECURSIVE PlacesFrom(_, _, _)
PlacesFrom(es, i, j) ==
    IF i > Len(es) THEN <<>>
    ELSE IF ~Has(es[i], "anime") \/ j > Len(es[i].anime)
    THEN PlacesFrom(es, i + 1, 1)
    ELSE <<<<i, j>>>> \o PlacesFrom(es, i, j + 1)

\* The selection at ij is examined by the queue building: its entry is not
\* completed and its flag is not set.
Examined(doc, ij) ==
    /\ doc.entries[ij[1]].status # "completed"
    /\ ~(Has(At(doc, ij), "downloaded") /\ At(doc, ij).downloaded)

\* The places take_input has to queue: examined, and not complete on disk.
ToQueue(doc) ==
    SelectSeq(PlacesFrom(doc.entries, 1, 1),
              LAMBDA ij : Examined(doc, ij) /\ ~CheckAlreadyOnDisk(disk, At(doc, ij)))

\* The item carries the selection's show, language and episodes.
Carries(item, sel) ==
    /\ item.anime.provider = sel.provider
    /\ item.anime.identifier = sel.identifier
    /\ item.anime.name = sel.name
    /\ {LangValue(l) : l \in item.anime.languages} = sel.languages
    /\ LangValue(item.lang) = sel.lang
    /\ item.episodes = sel.episodes

\* take_input returns without a fatal error.
QueueBuilt == pc = "build" /\ pc' \in {"process", "done"}

\* C14: work-queue projection. When take_input returns, picked holds one
\* item for each selection of the document saved after the prompts that is
\* in an entry not completed, is not downloaded and is not complete on
\* disk, in document order, with the selection's show, language and
\* episodes, and no other item; and every examined selection that is
\* complete on disk is downloaded.
C14_QueueProjection ==
    [][QueueBuilt =>
          LET doc == state_file.doc
              queue == ToQueue(doc)
          IN  /\ log'.src = queue
              /\ Len(picked') = Len(queue)
              /\ \A k \in 1..Len(queue) : Carries(picked'[k], At(doc, queue[k]))
              /\ \A ij \in Rng(PlacesFrom(doc.entries, 1, 1)) :
                    (Examined(doc, ij) /\ CheckAlreadyOnDisk(disk, At(doc, ij))) =>
                        At(state', ij).downloaded = TRUE]_vars

\* C14 happens: take_input has returned a queue after it had skipped a
\* downloaded selection of a pending entry and had found another selection
\* complete on disk.
C14_Witness ==
    /\ pc = "process"
    /\ pk = 1
    /\ picked # <<>>
    /\ log.ondisk # {}
    /\ \E i \in 1..Len(log.loaded.entries) :
          /\ log.loaded.entries[i].status = "pending"
          /\ \E j \in 1..Len(log.loaded.entries[i].anime) :
                log.loaded.entries[i].anime[j].downloaded

----------------------------------------------------------------------------
\* C15: immediate persist on existence reconciliation. While take_input
\* builds the queue, and when it ends fatally in doing so, every selection
\* the existence check has found complete in this pass is downloaded in the
\* state file as well: the document was saved with the flag before the next
\* selection was examined.
C15_PersistOnReconciliation ==
    pc \in {"build", "fatal"} =>
        \A ij \in log.ondisk : DownloadedAt(Entries(state_file), ij[1], ij[2])

----------------------------------------------------------------------------
\* The invocations made so far are those of the first n items of picked, one
\* each, in order, each with its item alone.
InvokedInOrder(n) ==
    /\ Len(log.calls) = n
    /\ \A k \in 1..n : /\ log.calls[k].items = <<picked[k]>>
                       /\ log.calls[k].src = log.src[k]

\* C16: failure never aborts the batch. While process() runs it has invoked
\* the download engine once for each item before the current one, in queue
\* order, with that item alone, and has not served the error report; when
\* it has returned it has done so for every item of the queue, whatever
\* the invocations returned, and has served the error report once.
C16_BatchNeverAborted ==
    /\ pc = "process" => (InvokedInOrder(pk - 1) /\ pk <= Len(picked) + 1
                          /\ log.served = <<>>)
    /\ (pc = "done" /\ picked # <<>>) => (InvokedInOrder(Len(picked))
                                          /\ Len(log.served) = 1)

\* C16 happens: process() has returned after two invocations of which the
\* first returned errors and the second none.
C16_Witness ==
    /\ pc = "done"
    /\ Len(picked) = 2
    /\ Len(log.calls) = 2
    /\ log.calls[1].errors # <<>>
    /\ log.calls[2].errors = <<>>
    /\ Len(log.served) = 1

----------------------------------------------------------------------------
\* C17: crash consistency of the download phase. Whenever process() is
\* about to invoke the download engine, or has made its last invocation,
\* the state file holds the document in memory, and it records as
\* downloaded every selection whose invocation has returned without errors
\* in this run: a kill at that point loses nothing that has been completed.
C17_CrashConsistency ==
    pc = "process" =>
        /\ state_file = SaveState(state)
        /\ \A k \in 1..Len(log.calls) :
              log.calls[k].errors = <<>> =>
                  DownloadedAt(Entries(state_file), log.calls[k].src[1],
                               log.calls[k].src[2])

----------------------------------------------------------------------------
\* Every invocation of the download engine in this run returned no errors.
NoErrors == \A k \in 1..Len(log.calls) : log.calls[k].errors = <<>>

\* Every entry of es is completed and every selection is downloaded.
Converged(es) ==
    \A i \in 1..Len(es) :
        /\ CompletedAt(es, i)
        /\ Has(es[i], "anime")
        /\ \A j \in 1..Len(es[i].anime) : DownloadedAt(es, i, j)

\* C19: convergence. When a run that loaded a document whose statuses
\* agree with its flags has ended without a fatal error and every
\* invocation of the download engine has returned no errors, the state
\* file holds the document in memory, every entry of it is completed and
\* every selection downloaded: the next run skips every entry when it
\* builds its queue.
C19_Convergence ==
    (pc = "done" /\ NoErrors /\ StatusMatchesFlags(log.loaded)) =>
        /\ state_file = SaveState(state)
        /\ Converged(Entries(state_file))

----------------------------------------------------------------------------
\* The selection t is the selection s but for its downloaded flag.
SameSelection(s, t) ==
    \A key \in DOMAIN s \ {"downloaded"} : Has(t, key) /\ t[key] = s[key]

\* The entry f is the entry e but for its status and its selections'
\* downloaded flags.
SameEntry(e, f) ==
    /\ \A key \in DOMAIN e \ {"status", "anime"} : Has(f, key) /\ f[key] = e[key]
    /\ Has(e, "status") => Has(f, "status")
    /\ Has(e, "anime") =>
          /\ Has(f, "anime")
          /\ Len(f.anime) = Len(e.anime)
          /\ \A j \in 1..Len(e.anime) : SameSelection(e.anime[j], f.anime[j])

\* a is a subsequence of b.
RECURSIVE IsSubseq(_, _)
IsSubseq(a, b) ==
    IF a = <<>> THEN TRUE
    ELSE IF b = <<>> THEN FALSE
    ELSE IF Head(a) = Head(b) THEN IsSubseq(Tail(a), Tail(b))
    ELSE IsSubseq(a, Tail(b))

\* From es to et no entry and no selection is removed, moved or changed
\* but for its flags, and the entries that are new are at the tail, in the
\* order of the lines of the list.
FrameKept(es, et) ==
    \/ et = es
    \/ /\ Len(et) >= Len(es)
       /\ \A i \in 1..Len(es) : SameEntry(es[i], et[i])
       /\ IsSubseq([n \in 1..(Len(et) - Len(es)) |-> et[Len(es) + n].query],
                   anime_names')

\* C18 as claimed: no step of any run removes, moves or changes an entry or
\* a selection of the state file but for the flags.
C18_LifecycleFrame ==
    [][ProgramStep => FrameKept(Entries(state_file), Entries(state_file'))]_vars

\* C18 as amended: while the state file is one that print_header loads,
\* no step of a run removes, moves or changes an entry or a selection of
\* the state file but for the downloaded flags and the statuses, and new
\* entries are appended in the order of the list; the same holds of the
\* document in memory in every step of take_input and process.
C18_FrameKeptWhenLoadable ==
    [][ProgramStep =>
         /\ Loads(state_file) =>
                FrameKept(Entries(state_file), Entries(state_file'))
         /\ pc \in {"input", "build", "process"} =>
                FrameKept(state.entries, state'.entries)]_vars

\* C18 happens: a second run has loaded a pending entry, has appended an
\* entry for a new line of the list behind it and has completed it.
C18_Witness ==
    /\ run = 2
    /\ pc = "done"
    /\ Loads(log.start_file)
    /\ Len(log.start_file.doc.entries) = 1
    /\ log.start_file.doc.entries[1].status = "pending"
    /\ Len(Entries(state_file)) = 2
    /\ state_file.doc.entries[1].status = "completed"
    /\ SameEntry(log.start_file.doc.entries[1], state_file.doc.entries[1])

----------------------------------------------------------------------------
(* The existence check on its own: _check_already_on_disk applied to a      *)
(* selection and a download folder drawn from bounded sets.                 *)

Chars(n) == CASE n = 1 -> <<"0", "1", "_", "e", "p", "i", "s", "o", "d", "e", ".", "m", "k", "v">>
              [] n = 2 -> <<"0", "2", "_", "e", "p", "i", "s", "o", "d", "e", ".", "m", "k", "v">>
              [] n = 3 -> <<"S", " ", "-", " ", "1", "0", ".", "m", "p", "4">>
              [] n = 4 -> <<"e", "p", "1", ".", "5", ".", "m", "k", "v">>
              [] n = 5 -> <<"0", "3", ".", "1", "2">>

\* What the folder of a show can hold: files, and one directory.
FilePool == {File(Chars(1)), File(Chars(2)), File(Chars(3)), File(Chars(4)),
             Dir(Chars(5))}

ExampleFolder == {File(Chars(1)), File(Chars(2))}

CheckNames == {"Show", "Sh/ow", "NoSuchShow"}

\* Episode numbers in tenths: 1 .. MaxEp, and 1.5.
CheckEpisodes == {10 * n : n \in 1..MaxEp} \cup {15}

MaxEpisodes == 3

CheckEpisodeLists ==
    UNION {[1..len -> CheckEpisodes] : len \in 0..2}
    \cup {eps \in [1..MaxEpisodes -> {10, 20, 30, 120}] :
             \A n \in 1..(MaxEpisodes - 1) : eps[n] < eps[n + 1]}

InitCheck ==
    /\ list_file = [exists |-> FALSE, lines |-> <<>>]
    /\ state_file = NoFile
    /\ disk \in {NoFolders} \cup {[f \in {"Show"} |-> files] : files \in SUBSET FilePool}
    /\ registry = Providers
    /\ anime_names = <<>>
    /\ state = EmptyDoc
    /\ picked = <<>>
    /\ all_errors = <<>>
    /\ pc = "check"
    /\ idx = 1 /\ bi = 1 /\ bj = 1 /\ pk = 1
    /\ run = 0
    /\ env = 0
    /\ \E name \in CheckNames : \E eps \in CheckEpisodeLists :
          log = [name |-> name, episodes |-> eps, result |-> FALSE]
    /\ prev = [ended |-> "none", env |-> 0, calls |-> 0, empty |-> {}]

CheckOnDisk ==
    /\ pc = "check"
    /\ log' = [log EXCEPT !.result = CheckAlreadyOnDisk(disk, log)]
    /\ pc' = "checked"
    /\ UNCHANGED <<list_file, state_file, disk, registry, anime_names, state,
                   picked, all_errors, idx, bi, bj, pk, run, env, prev>>

SpecCheck == InitCheck /\ [][CheckOnDisk]_vars

\* The two characters of an episode number below 100 padded to two digits,
\* and the rendering of any other episode number.
TwoDigits(t) ==
    IF t % 10 = 0 /\ t < 1000
    THEN <<Digits[((t \div 10) \div 10) + 1], Digits[((t \div 10) % 10) + 1]>>
    ELSE EpStr(t)

Occurs(token, stem) ==
    \E k \in 1..Len(stem) :
        /\ k + Len(token) - 1 <= Len(stem)
        /\ \A c \in 1..Len(token) : stem[k + c - 1] = token[c]

FolderOf(name) == IF name = "NoSuchShow" THEN "NoSuchShow" ELSE "Show"

\* C9: existence-check correctness. The check is true exactly when the
\* show's folder exists and every required episode number, padded to two
\* digits, occurs in the stem of a file of the folder; with the files
\* 01_episode and 02_episode it is true for episodes 1, 2, false for
\* 1, 2, 3 and false for a show without a folder.
C9_ExistenceCheck ==
    pc = "checked" =>
        /\ log.result <=>
              /\ FolderOf(log.name) \in DOMAIN disk
              /\ \A n \in 1..Len(log.episodes) :
                    \E p \in disk[FolderOf(log.name)] :
                        /\ p.is_file
                        /\ Occurs(TwoDigits(log.episodes[n]), Stem(p.name))
        /\ (disk = [f \in {"Show"} |-> ExampleFolder] /\ log.name = "Show") =>
              /\ log.episodes = <<10, 20>> => log.result
              /\ log.episodes = <<10, 20, 30>> => ~log.result
        /\ log.name = "NoSuchShow" => ~log.result

\* C9 happens: episodes 1 and 2 are found in the files 01_episode and
\* 02_episode of the folder Show.
C9_Witness ==
    /\ pc = "checked"
    /\ disk = [f \in {"Show"} |-> ExampleFolder]
    /\ log.name = "Show"
    /\ log.episodes = <<10, 20>>
    /\ log.result

====
